---- MODULE Spec2Model ----
(***************************************************************************)
(* Model of the Sefaria MCP server: the dispatcher handle_call_tool of     *)
(* server.py and the handlers of sefaria_handler.py.                       *)
(*                                                                         *)
(* Python values are tagged records: [t |-> "null"], [t |-> "bool", b],    *)
(* [t |-> "int", n], [t |-> "str", s], [t |-> "list", l] (a sequence),     *)
(* [t |-> "dict", d] (a sequence of <<key, value>> pairs in insertion      *)
(* order) and [t |-> "coroutine"] (the object an async function returns    *)
(* when it is called without await).                                       *)
(* A call outcome is [k |-> "ret", v, reqs] or [k |-> "exc", cls, msg,     *)
(* reqs]; reqs are the upstream requests the call issued.                  *)
(***************************************************************************)
EXTENDS Integers, Sequences, FiniteSets, TLC

\* name .. result: the call the server is running, its upstream outcome, the
\* requests it sent and what it returned.  calls: the calls in hand when
\* calls overlap, one record per slot.  module_globals: the module-level
\* objects of sefaria_handler that every call can reach.  tools: the listings
\* of the catalog the client has received, oldest first.
VARIABLES name, arguments, calendar, upstream, requests, result,
          calls, module_globals, tools

vars == <<name, arguments, calendar, upstream, requests, result, calls, module_globals,
          tools>>

(***************************************************************************)
(* Python values                                                           *)
(***************************************************************************)
PyNone == [t |-> "null"]
PyBool(b) == [t |-> "bool", b |-> b]
PyInt(n) == [t |-> "int", n |-> n]
PyStr(s) == [t |-> "str", s |-> s]
PyList(l) == [t |-> "list", l |-> l]
PyDict(d) == [t |-> "dict", d |-> d]
Coroutine == [t |-> "coroutine"]

\* A presence check that rejects None alone and lets the empty string through
\* to the handler (mutant of Truthy).
TruthyUnlessNone(v) == v.t # "null"

\* Python truth value of an object (`if x`, `not x`).
Truthy(v) ==
    CASE v.t = "null" -> FALSE
      [] v.t = "bool" -> v.b
      [] v.t = "int" -> v.n # 0
      [] v.t = "str" -> v.s # ""
      [] v.t = "list" -> v.l # <<>>
      [] v.t = "dict" -> v.d # <<>>
      [] OTHER -> TRUE

\* `k in d` for a dict d.
DictHas(dv, key) == \E i \in 1..Len(dv.d) : dv.d[i][1] = key

\* d.get(k, default) / d[k] once `k in d` is known.
DictGet(dv, key, default) ==
    IF DictHas(dv, key)
    THEN dv.d[CHOOSE i \in 1..Len(dv.d) : dv.d[i][1] = key][2]
    ELSE default

\* d[k] = v: in place when the key exists, appended otherwise.
DictSet(dv, key, val) ==
    IF DictHas(dv, key)
    THEN PyDict([i \in 1..Len(dv.d) |->
                   IF dv.d[i][1] = key THEN <<key, val>> ELSE dv.d[i]])
    ELSE PyDict(Append(dv.d, <<key, val>>))

Ret(v, reqs) == [k |-> "ret", v |-> v, reqs |-> reqs]
Raise(cls, msg, reqs) == [k |-> "exc", cls |-> cls, msg |-> msg, reqs |-> reqs]

(***************************************************************************)
(* Strings                                                                 *)
(***************************************************************************)
StartsWith(s, p) == Len(s) >= Len(p) /\ SubSeq(s, 1, Len(p)) = p

Contains(s, p) == \E i \in 1..(Len(s) - Len(p) + 1) : SubSeq(s, i, i + Len(p) - 1) = p

\* sep.join(parts) for a sequence of strings.
RECURSIVE StrJoin(_, _)
StrJoin(parts, sep) ==
    IF Len(parts) = 0 THEN ""
    ELSE IF Len(parts) = 1 THEN parts[1]
    ELSE parts[1] \o sep \o StrJoin(Tail(parts), sep)

RECURSIVE Spaces(_)
Spaces(n) == IF n <= 0 THEN "" ELSE " " \o Spaces(n - 1)

\* The string made of n copies of the one-character string c.
RECURSIVE Rep(_, _)
Rep(c, n) ==
    IF n <= 0 THEN ""
    ELSE IF n = 1 THEN c
    ELSE LET half == Rep(c, n \div 2) IN
         half \o half \o (IF n % 2 = 1 THEN c ELSE "")

(***************************************************************************)
(* json.dumps and urllib.parse.quote, on the ASCII alphabet the model's    *)
(* inputs are drawn from (so ensure_ascii makes no difference).            *)
(***************************************************************************)
\* The JSON escape of one character inside a string literal.
EscapeChar(c) ==
    CASE c = "\"" -> "\\\""
      [] c = "\\" -> "\\\\"
      [] c = "\n" -> "\\n"
      [] OTHER -> c

RECURSIVE EscapeStr(_)
EscapeStr(s) ==
    IF Len(s) = 0 THEN ""
    ELSE IF Len(s) = 1 THEN EscapeChar(s)
    ELSE EscapeStr(SubSeq(s, 1, Len(s) \div 2))
           \o EscapeStr(SubSeq(s, Len(s) \div 2 + 1, Len(s)))

\* indent is 2 (indent=2) or NoIndent (no indent argument).
NoIndent == 0

Newline(indent, level) ==
    IF indent = NoIndent THEN "" ELSE "\n" \o Spaces(indent * level)

ItemSeparator(indent, level) ==
    IF indent = NoIndent THEN ", " ELSE "," \o Newline(indent, level)

\* json.dumps(v) and json.dumps(v, indent=2), at nesting depth `level`.
RECURSIVE Dumps(_, _, _)
Dumps(v, indent, level) ==
    CASE v.t = "null" -> "null"
      [] v.t = "bool" -> IF v.b THEN "true" ELSE "false"
      [] v.t = "int" -> ToString(v.n)
      [] v.t = "str" -> "\"" \o EscapeStr(v.s) \o "\""
      [] v.t = "list" ->
           IF Len(v.l) = 0 THEN "[]"
           ELSE "[" \o Newline(indent, level + 1)
                \o StrJoin([i \in 1..Len(v.l) |-> Dumps(v.l[i], indent, level + 1)],
                           ItemSeparator(indent, level + 1))
                \o Newline(indent, level) \o "]"
      [] v.t = "dict" ->
           IF Len(v.d) = 0 THEN "{}"
           ELSE "{" \o Newline(indent, level + 1)
                \o StrJoin([i \in 1..Len(v.d) |->
                              "\"" \o EscapeStr(v.d[i][1]) \o "\": "
                              \o Dumps(v.d[i][2], indent, level + 1)],
                           ItemSeparator(indent, level + 1))
                \o Newline(indent, level) \o "}"

json_dumps(v, indent) == Dumps(v, indent, 0)

\* The characters urllib.parse.quote leaves alone (safe='/').
QuoteSafe ==
    {"a","b","c","d","e","f","g","h","i","j","k","l","m","n","o","p","q","r","s",
     "t","u","v","w","x","y","z","A","B","C","D","E","F","G","H","I","J","K","L",
     "M","N","O","P","Q","R","S","T","U","V","W","X","Y","Z","0","1","2","3","4",
     "5","6","7","8","9","_",".","-","~","/"}

\* The percent code of the other characters of the inputs' alphabet.
PercentCode(c) ==
    CASE c = " " -> "%20"
      [] c = ":" -> "%3A"
      [] c = "," -> "%2C"
      [] c = "'" -> "%27"
      [] c = "?" -> "%3F"
      [] c = "&" -> "%26"
      [] c = "=" -> "%3D"

RECURSIVE QuoteStr(_)
QuoteStr(s) ==
    IF Len(s) = 0 THEN ""
    ELSE (IF SubSeq(s, 1, 1) \in QuoteSafe THEN SubSeq(s, 1, 1)
          ELSE PercentCode(SubSeq(s, 1, 1)))
         \o QuoteStr(SubSeq(s, 2, Len(s)))

\* urllib.parse.quote(x): a str is encoded, any other object of the
\* argument bag is rejected by quote_from_bytes.
quote(v, reqs) ==
    IF v.t = "str" THEN Ret(QuoteStr(v.s), reqs)
    ELSE Raise({"TypeError"}, "quote_from_bytes() expected bytes", reqs)

\* str(x) inside an f-string, for the values the handlers format.
PyFormat(v) ==
    CASE v.t = "null" -> "None"
      [] v.t = "bool" -> IF v.b THEN "True" ELSE "False"
      [] v.t = "int" -> ToString(v.n)
      [] v.t = "str" -> v.s
      [] OTHER -> json_dumps(v, NoIndent)

(***************************************************************************)
(* The upstream service.  `up` is what the service does with the request   *)
(* of the call: [k |-> "ok", data] (a 2xx answer whose body parses to      *)
(* data) or [k |-> "fail", cls, msg] (requests raised an exception of the  *)
(* classes cls).                                                           *)
(***************************************************************************)
SEFARIA_API_BASE_URL == "https://sefaria.org"

\* HttpRequest sending the request a second time when it fails.
HttpRequestRetrying(req, up, reqs) ==
    IF up.k = "ok" THEN Ret(up.data, Append(reqs, req))
    ELSE Raise(up.cls, up.msg, Append(Append(reqs, req), req))

\* requests.get(url) / requests.post(url, json=payload), raise_for_status()
\* and response.json() in a row: one request goes out, and either the
\* parsed body comes back or the exception of the failing step is raised.
HttpRequest(req, up, reqs) ==
    IF up.k = "ok" THEN Ret(up.data, Append(reqs, req))
    ELSE Raise(up.cls, up.msg, Append(reqs, req))

HttpGet(url, up, reqs) == HttpRequest([method |-> "GET", url |-> url], up, reqs)

\* `key in data` for a str key: a TypeError for objects that are no containers.
PyIn(key, data, reqs) ==
    CASE data.t = "dict" -> Ret(DictHas(data, key), reqs)
      [] data.t = "list" -> Ret(\E i \in 1..Len(data.l) : data.l[i] = PyStr(key), reqs)
      [] data.t = "str" -> Ret(Contains(data.s, key), reqs)
      [] OTHER -> Raise({"TypeError"},
                        "argument of type '" \o data.t \o "' is not iterable", reqs)

\* data[key] for a str key.
PyGetItem(data, key, reqs) ==
    CASE data.t = "dict" ->
           IF DictHas(data, key) THEN Ret(DictGet(data, key, PyNone), reqs)
           ELSE Raise({"KeyError"}, "'" \o key \o "'", reqs)
      [] data.t = "list" ->
           Raise({"TypeError"}, "list indices must be integers or slices, not str", reqs)
      [] data.t = "str" ->
           Raise({"TypeError"}, "string indices must be integers", reqs)
      [] OTHER ->
           Raise({"TypeError"}, "'" \o data.t \o "' object is not subscriptable", reqs)

\* The objects `for x in coll` yields; a TypeError for objects that are not iterable.
PyIter(coll, reqs) ==
    CASE coll.t = "list" -> Ret(coll.l, reqs)
      [] coll.t = "dict" -> Ret([i \in 1..Len(coll.d) |-> PyStr(coll.d[i][1])], reqs)
      [] coll.t = "str" -> Ret([i \in 1..Len(coll.s) |-> PyStr(SubSeq(coll.s, i, i))], reqs)
      [] OTHER -> Raise({"TypeError"}, "'" \o coll.t \o "' object is not iterable", reqs)

\* FilterVersions leaving out the fields an entry lacks.
FilterVersionsOmitMissing(data, key, fields, reqs) ==
    LET has == PyIn(key, data, reqs) IN
    IF has.k = "exc" THEN has
    ELSE IF ~has.v THEN Ret(data, reqs)
    ELSE LET coll == PyGetItem(data, key, reqs) IN
         IF coll.k = "exc" THEN coll
         ELSE LET items == PyIter(coll.v, reqs) IN
              IF items.k = "exc" THEN items
              ELSE IF \E i \in 1..Len(items.v) : items.v[i].t # "dict"
              THEN Raise({"AttributeError"}, "object has no attribute 'get'", reqs)
              ELSE Ret(DictSet(data, key,
                         PyList([i \in 1..Len(items.v) |->
                            PyDict(SelectSeq(
                               [j \in 1..Len(fields) |->
                                  <<fields[j], DictGet(items.v[i], fields[j], PyStr(""))>>],
                               LAMBDA pair : DictHas(items.v[i], pair[1])))])),
                       reqs)

\* get_text's projection of data[key] onto `fields`, a missing field
\* defaulting to "".
FilterVersions(data, key, fields, reqs) ==
    LET has == PyIn(key, data, reqs) IN
    IF has.k = "exc" THEN has
    ELSE IF ~has.v THEN Ret(data, reqs)
    ELSE LET coll == PyGetItem(data, key, reqs) IN
         IF coll.k = "exc" THEN coll
         ELSE LET items == PyIter(coll.v, reqs) IN
              IF items.k = "exc" THEN items
              ELSE IF \E i \in 1..Len(items.v) : items.v[i].t # "dict"
              THEN Raise({"AttributeError"}, "object has no attribute 'get'", reqs)
              ELSE Ret(DictSet(data, key,
                         PyList([i \in 1..Len(items.v) |->
                            PyDict([j \in 1..Len(fields) |->
                               <<fields[j], DictGet(items.v[i], fields[j], PyStr(""))>>])])),
                       reqs)

\* The query string get_text adds for version_language.
TextParams(version_language) ==
    CASE version_language = PyStr("source") -> "?version=source"
      [] version_language = PyStr("english") -> "?version=english"
      [] version_language = PyStr("both") -> "?version=english&version=source"
      [] OTHER -> ""

get_text(reference, version_language, up, reqs) ==
    LET q == quote(reference, reqs) IN
    IF q.k = "exc" THEN q
    ELSE
    LET url == SEFARIA_API_BASE_URL \o "/api/v3/texts/" \o q.v
               \o TextParams(version_language)
        resp == HttpGet(url, up, reqs)
    IN  IF resp.k = "exc"
        THEN IF "RequestException" \in resp.cls
             THEN Ret(PyStr("Error fetching text: " \o resp.msg), resp.reqs)
             ELSE IF "JSONDecodeError" \in resp.cls
             THEN Ret(PyStr("Error parsing response: " \o resp.msg), resp.reqs)
             ELSE resp
        ELSE LET v1 == FilterVersions(resp.v, "versions",
                          <<"languageFamilyName", "text", "versionTitle">>, resp.reqs)
             IN  IF v1.k = "exc" THEN v1
                 ELSE LET v2 == FilterVersions(v1.v, "available_versions",
                                   <<"versionTitle", "languageFamilyName">>, resp.reqs)
                      IN  IF v2.k = "exc" THEN v2
                          ELSE Ret(PyStr(json_dumps(v2.v, 2)), resp.reqs)

\* PassthroughResult putting the answer in an envelope.
PassthroughResultEnveloped(resp, what) ==
    IF resp.k = "exc"
    THEN IF "JSONDecodeError" \in resp.cls
         THEN Ret(PyStr("Error: Failed to parse JSON response: " \o resp.msg), resp.reqs)
         ELSE IF "RequestException" \in resp.cls
         THEN Ret(PyStr("Error during " \o what \o " API request: " \o resp.msg), resp.reqs)
         ELSE resp
    ELSE Ret(PyStr(json_dumps(PyDict(<< <<what, resp.v>> >>), 2)), resp.reqs)

\* The except clauses shared by get_name, get_links and get_shape:
\* json.JSONDecodeError first, then RequestException; `what` is the API's name.
PassthroughResult(resp, what) ==
    IF resp.k = "exc"
    THEN IF "JSONDecodeError" \in resp.cls
         THEN Ret(PyStr("Error: Failed to parse JSON response: " \o resp.msg), resp.reqs)
         ELSE IF "RequestException" \in resp.cls
         THEN Ret(PyStr("Error during " \o what \o " API request: " \o resp.msg), resp.reqs)
         ELSE resp
    ELSE Ret(PyStr(json_dumps(resp.v, 2)), resp.reqs)

\* The query string get_name builds from limit and type_filter.
NameParams(limit, type_filter) ==
    LET params == (IF limit # PyNone THEN <<"limit=" \o PyFormat(limit)>> ELSE <<>>)
                  \o (IF type_filter # PyNone
                      THEN <<"type=" \o PyFormat(type_filter)>> ELSE <<>>)
    IN  IF Len(params) > 0 THEN "?" \o StrJoin(params, "&") ELSE ""

get_name(nm, limit, type_filter, up, reqs) ==
    LET q == quote(nm, reqs) IN
    IF q.k = "exc" THEN q
    ELSE PassthroughResult(
           HttpGet(SEFARIA_API_BASE_URL \o "/api/name/" \o q.v
                   \o NameParams(limit, type_filter), up, reqs),
           "name")

get_links(reference, with_text, up, reqs) ==
    LET q == quote(reference, reqs) IN
    IF q.k = "exc" THEN q
    ELSE PassthroughResult(
           HttpGet(SEFARIA_API_BASE_URL \o "/api/links/" \o q.v
                   \o "?with_text=" \o PyFormat(with_text), up, reqs),
           "links")

get_shape(nm, up, reqs) ==
    LET q == quote(nm, reqs) IN
    IF q.k = "exc" THEN q
    ELSE PassthroughResult(
           HttpGet(SEFARIA_API_BASE_URL \o "/api/shape/" \o q.v, up, reqs),
           "shape")

\* get_request_json_data(endpoint): None on a RequestException, any other
\* exception passes through.
get_request_json_data(endpoint, up, reqs) ==
    LET resp == HttpGet(SEFARIA_API_BASE_URL \o "/" \o endpoint, up, reqs) IN
    IF resp.k = "exc" /\ "RequestException" \in resp.cls
    THEN Ret(PyNone, resp.reqs)
    ELSE resp

\* get_situational_info(); cal is what hdate gives for the current date:
\* [k |-> "ok", s] or [k |-> "fail", msg].
get_situational_info(cal, up, reqs) ==
    LET failed(msg, rq) ==
            Ret(PyStr(json_dumps(PyDict(<< <<"error",
                  PyStr("Error retrieving situational information: " \o msg)>> >>),
                  NoIndent)), rq)
    IN
    IF cal.k = "fail" THEN failed(cal.msg, reqs)
    ELSE
    LET calendar_data == get_request_json_data("api/calendars", up, reqs) IN
    IF calendar_data.k = "exc" THEN failed(calendar_data.msg, calendar_data.reqs)
    ELSE IF ~Truthy(calendar_data.v)
    THEN Ret(PyStr(json_dumps(PyDict(<<
                <<"error", PyStr("Could not retrieve calendar data from Sefaria")>>,
                <<"Hebrew Date", PyStr(cal.s)>> >>), NoIndent)), calendar_data.reqs)
    ELSE IF calendar_data.v.t = "dict"
    THEN Ret(PyStr(json_dumps(DictSet(calendar_data.v, "Hebrew Date", PyStr(cal.s)), 2)),
             calendar_data.reqs)
    ELSE failed("object does not support item assignment", calendar_data.reqs)

(***************************************************************************)
(* Search: _search, search_texts, search_dictionaries                      *)
(***************************************************************************)
lexicon_map ==
    << <<"Reference/Dictionary/Jastrow", "Jastrow Dictionary">>,
       <<"Reference/Dictionary/Klein Dictionary", "Klein Dictionary">>,
       <<"Reference/Dictionary/BDB", "BDB Dictionary">>,
       <<"Reference/Dictionary/BDB Aramaic", "BDB Aramaic Dictionary">>,
       <<"Reference/Encyclopedic Works/Kovetz Yesodot VaChakirot",
         "Kovetz Yesodot VaChakirot">> >>

lexicon_search_filters ==
    PyList([i \in 1..Len(lexicon_map) |-> PyStr(lexicon_map[i][1])])

filter_list_no_list_check(filters) ==
    IF Truthy(filters) THEN <<filters>> ELSE <<>>

\* filter_list of _search: a list as it is, any other truthy object as a
\* one-element list, a falsy one as the empty list.
filter_list(filters) ==
    IF filters.t = "list" THEN filters.l
    ELSE IF Truthy(filters) THEN <<filters>>
    ELSE <<>>

\* The POST body _search sends.
SearchPayload(query, filters, size) ==
    [aggs |-> <<>>,
     field |-> "naive_lemmatizer",
     filter_fields |-> [i \in 1..Len(filter_list(filters)) |-> PyNone],
     filters |-> filter_list(filters),
     query |-> query,
     size |-> size,
     slop |-> 10,
     sort_fields |-> <<"pagesheetrank">>,
     sort_method |-> "score",
     sort_reverse |-> FALSE,
     sort_score_missing |-> "0.04",
     source_proj |-> TRUE,
     type |-> "text"]

\* The body of the coroutine _search: one POST, the parsed body returned,
\* both kinds of exception logged and raised again.
_search(query, filters, size, up, reqs) ==
    HttpRequest([method |-> "POST",
                 url |-> SEFARIA_API_BASE_URL \o "/api/search-wrapper/es8",
                 json |-> SearchPayload(query, filters, size)], up, reqs)

\* The plain content fields of a hit, in priority order, and the length
\* a plain snippet is cut to.
SnippetFields == <<"naive_lemmatizer", "exact">>
SnippetLimit == 300

TruncateAtLimit(content) ==
    IF Len(content) >= SnippetLimit
    THEN SubSeq(content, 1, SnippetLimit) \o "..."
    ELSE content

\* Truncate appending the number of characters it cut.
TruncateCounting(content) ==
    IF Len(content) > SnippetLimit
    THEN SubSeq(content, 1, SnippetLimit) \o "..." \o ToString(Len(content) - SnippetLimit)
    ELSE content

\* content[:300] + ("..." if len(content) > 300 else "")
Truncate(content) ==
    IF Len(content) > SnippetLimit
    THEN SubSeq(content, 1, SnippetLimit) \o "..."
    ELSE content

\* " [...] ".join(highlights) once `highlights and len(highlights) > 0` holds.
JoinHighlights(h, reqs) ==
    CASE h.t = "list" ->
           IF \A i \in 1..Len(h.l) : h.l[i].t = "str"
           THEN Ret(StrJoin([i \in 1..Len(h.l) |-> h.l[i].s], " [...] "), reqs)
           ELSE Raise({"TypeError"}, "sequence item: expected str instance", reqs)
      [] h.t = "str" ->
           Ret(StrJoin([i \in 1..Len(h.s) |-> SubSeq(h.s, i, i)], " [...] "), reqs)
      [] h.t = "dict" ->
           Ret(StrJoin([i \in 1..Len(h.d) |-> h.d[i][1]], " [...] "), reqs)
      [] OTHER ->
           Raise({"TypeError"}, "object of type '" \o h.t \o "' has no len()", reqs)

\* The loop over hit["highlight"].items(): the fragments of the first field
\* whose fragment list is truthy, joined; "" when there is none.
RECURSIVE HighlightSnippet(_, _)
HighlightSnippet(items, reqs) ==
    IF Len(items) = 0 THEN Ret("", reqs)
    ELSE IF Truthy(items[1][2]) THEN JoinHighlights(items[1][2], reqs)
    ELSE HighlightSnippet(Tail(items), reqs)

RECURSIVE PlainSnippetLastFirst(_, _)
PlainSnippetLastFirst(source, fields) ==
    IF Len(fields) = 0 THEN ""
    ELSE LET content == DictGet(source, fields[Len(fields)], PyNone) IN
         IF DictHas(source, fields[Len(fields)]) /\ Truthy(content) /\ content.t = "str"
         THEN Truncate(content.s)
         ELSE PlainSnippetLastFirst(source, SubSeq(fields, 1, Len(fields) - 1))

\* The loop over the plain fields: the first field that is in source with a
\* truthy str value, cut to the limit; "" when there is none.
RECURSIVE PlainSnippet(_, _)
PlainSnippet(source, fields) ==
    IF Len(fields) = 0 THEN ""
    ELSE LET content == DictGet(source, fields[1], PyNone) IN
         IF DictHas(source, fields[1]) /\ Truthy(content) /\ content.t = "str"
         THEN Truncate(content.s)
         ELSE PlainSnippet(source, Tail(fields))

text_snippet_plain_first(hit, source, reqs) ==
    IF PlainSnippet(source, SnippetFields) # ""
    THEN Ret(PlainSnippet(source, SnippetFields), reqs)
    ELSE IF DictHas(hit, "highlight") /\ DictGet(hit, "highlight", PyNone).t = "dict"
    THEN HighlightSnippet(DictGet(hit, "highlight", PyNone).d, reqs)
    ELSE Ret("", reqs)

\* text_snippet of one hit, given its source dict.
text_snippet(hit, source, reqs) ==
    LET hl == IF DictHas(hit, "highlight")
              THEN LET h == DictGet(hit, "highlight", PyNone) IN
                   IF h.t = "dict" THEN HighlightSnippet(h.d, reqs)
                   ELSE Raise({"AttributeError"}, "object has no attribute 'items'", reqs)
              ELSE Ret("", reqs)
    IN  IF hl.k = "exc" THEN hl
        ELSE IF hl.v # "" THEN hl
        ELSE Ret(PlainSnippet(source, SnippetFields), reqs)

\* The body of the loop over the hits: the entry built for one hit.
filtered_result(hit, reqs) ==
    LET source == PyGetItem(hit, "_source", reqs) IN
    IF source.k = "exc" THEN source
    ELSE IF source.v.t # "dict"
    THEN Raise({"AttributeError"}, "object has no attribute 'get'", reqs)
    ELSE LET snip == text_snippet(hit, source.v, reqs) IN
         IF snip.k = "exc" THEN snip
         ELSE Ret(PyDict(<< <<"ref", DictGet(source.v, "ref", PyStr(""))>>,
                            <<"categories", DictGet(source.v, "categories", PyList(<<>>))>>,
                            <<"text_snippet", PyStr(snip.v)>> >>), reqs)

\* The entries of a sequence of hits, or the exception of the first hit
\* that raises.
FilteredHits(hits, reqs) ==
    LET each == [i \in 1..Len(hits) |-> filtered_result(hits[i], reqs)] IN
    IF \E i \in 1..Len(hits) : each[i].k = "exc"
    THEN each[CHOOSE i \in 1..Len(hits) :
                 each[i].k = "exc" /\ \A j \in 1..(i - 1) : each[j].k = "ret"]
    ELSE Ret([i \in 1..Len(hits) |-> each[i].v], reqs)

\* total_hits read as total_hits["value"] whatever its type.
total_hits_subscripted(hits, reqs) ==
    PyGetItem(DictGet(hits, "total", PyInt(0)), "value", reqs)

\* total_hits of data["hits"]: the count, taken out of {"value": N} when it
\* comes in that form, 0 when it is absent.
total_hits(hits, reqs) ==
    LET total == DictGet(hits, "total", PyInt(0)) IN
    IF total.t = "dict" /\ DictHas(total, "value")
    THEN PyGetItem(total, "value", reqs)
    ELSE Ret(total, reqs)

\* What search_texts does with `data`: the list of entries, or the
\* no-results message when the list is empty.
filtered_results(data, query, reqs) ==
    LET noResults == Ret(PyStr("No results found for '" \o PyFormat(query) \o "'."), reqs)
        has1 == PyIn("hits", data, reqs)
    IN
    IF has1.k = "exc" THEN has1
    ELSE IF ~has1.v THEN noResults
    ELSE LET outer == PyGetItem(data, "hits", reqs) IN
         IF outer.k = "exc" THEN outer
         ELSE LET has2 == PyIn("hits", outer.v, reqs) IN
              IF has2.k = "exc" THEN has2
              ELSE IF ~has2.v THEN noResults
              ELSE IF outer.v.t # "dict"
              THEN Raise({"AttributeError"}, "object has no attribute 'get'", reqs)
              ELSE LET total == total_hits(outer.v, reqs)
                       hits == PyIter(DictGet(outer.v, "hits", PyNone), reqs)
                   IN
                   IF total.k = "exc" THEN total
                   ELSE IF hits.k = "exc" THEN hits
                   ELSE LET res == FilteredHits(hits.v, reqs) IN
                        IF res.k = "exc" THEN res
                        ELSE IF Len(res.v) = 0 THEN noResults
                        ELSE Ret(PyList(res.v), reqs)

\* search_texts: _search is called without await, so `data` is the coroutine
\* object and the body of _search does not run; any exception of the
\* formatting is logged and the function falls off its end (None).
search_texts(query, filters, size, up, reqs) ==
    LET data == Ret(Coroutine, reqs)
        res == filtered_results(data.v, query, data.reqs)
    IN  IF res.k = "exc" THEN Ret(PyNone, res.reqs) ELSE res

\* The entry search_dictionaries builds for one hit.
dictionary_result(hit, reqs) ==
    LET source == PyGetItem(hit, "_source", reqs) IN
    IF source.k = "exc" THEN source
    ELSE
    LET ref == PyGetItem(source.v, "ref", reqs)
        variants == PyGetItem(source.v, "titleVariants", reqs)
        path == PyGetItem(source.v, "path", reqs)
        exact == PyGetItem(source.v, "exact", reqs)
    IN  IF ref.k = "exc" THEN ref
        ELSE IF variants.k = "exc" THEN variants
        ELSE IF variants.v.t # "list"
        THEN Raise({"TypeError"}, "object is not subscriptable", reqs)
        ELSE IF Len(variants.v.l) = 0
        THEN Raise({"IndexError"}, "list index out of range", reqs)
        ELSE IF path.k = "exc" THEN path
        ELSE IF path.v.t # "str" \/ ~DictHas(PyDict(lexicon_map), path.v.s)
        THEN Raise({"KeyError"}, PyFormat(path.v), reqs)
        ELSE IF exact.k = "exc" THEN exact
        ELSE Ret(PyDict(<< <<"ref", ref.v>>,
                           <<"headword", variants.v.l[1]>>,
                           <<"lexicon_name",
                             PyStr(DictGet(PyDict(lexicon_map), path.v.s, ""))>>,
                           <<"text", exact.v>> >>), reqs)

\* search_dictionaries: _search is called without await here too; every
\* exception is logged and raised again.
search_dictionaries(query, up, reqs) ==
    LET response == Ret(Coroutine, reqs)
        outer == PyGetItem(response.v, "hits", response.reqs)
    IN
    IF outer.k = "exc" THEN outer
    ELSE LET inner == PyGetItem(outer.v, "hits", reqs) IN
         IF inner.k = "exc" THEN inner
         ELSE LET hits == PyIter(inner.v, reqs) IN
              IF hits.k = "exc" THEN hits
              ELSE LET each == [i \in 1..Len(hits.v) |-> dictionary_result(hits.v[i], reqs)]
                   IN  IF \E i \in 1..Len(hits.v) : each[i].k = "exc"
                       THEN each[CHOOSE i \in 1..Len(hits.v) :
                                    each[i].k = "exc"
                                    /\ \A j \in 1..(i - 1) : each[j].k = "ret"]
                       ELSE Ret(PyList([i \in 1..Len(hits.v) |-> each[i].v]), reqs)

(***************************************************************************)
(* server.py: the tool catalog and the dispatcher                          *)
(***************************************************************************)
\* handle_list_tools: name, properties and required arguments of each tool,
\* in the order of the listing.
ToolCatalog ==
    << [name |-> "get_text", properties |-> <<"reference", "version_language">>,
        required |-> <<"reference">>],
       [name |-> "get_english_translations", properties |-> <<"reference">>,
        required |-> <<"reference">>],
       [name |-> "get_index", properties |-> <<"title">>, required |-> <<"title">>],
       [name |-> "get_situational_info", properties |-> <<>>, required |-> <<>>],
       [name |-> "get_links", properties |-> <<"reference", "with_text">>,
        required |-> <<"reference">>],
       [name |-> "search_texts", properties |-> <<"query", "filters", "size">>,
        required |-> <<"query">>],
       [name |-> "search_in_book", properties |-> <<"query", "book_name", "size">>,
        required |-> <<"query", "book_name">>],
       [name |-> "search_dictionaries", properties |-> <<"query">>,
        required |-> <<"query">>],
       [name |-> "get_name", properties |-> <<"name", "limit", "type_filter">>,
        required |-> <<"name">>],
       [name |-> "get_shape", properties |-> <<"name">>, required |-> <<"name">>],
       [name |-> "get_search_path_filter", properties |-> <<"book_name">>,
        required |-> <<"book_name">>],
       [name |-> "get_topics", properties |-> <<"topic_slug", "with_links", "with_refs">>,
        required |-> <<"topic_slug">>],
       [name |-> "get_manuscripts", properties |-> <<"reference">>,
        required |-> <<"reference">>] >>

\* The JSON types the catalog declares for a property; a property of the
\* same name has the same declaration in every tool that has it.
SchemaTypes(key) ==
    CASE key = "filters" -> {"string", "array"}
      [] key \in {"size", "limit"} -> {"integer"}
      [] key \in {"with_links", "with_refs"} -> {"boolean"}
      [] OTHER -> {"string"}

\* The enumeration the catalog declares for a property; {} where it
\* declares none.
SchemaEnum(key) ==
    CASE key = "version_language" -> {PyStr("source"), PyStr("english"), PyStr("both")}
      [] key = "with_text" -> {PyStr("0"), PyStr("1")}
      [] key = "type_filter" ->
           {PyStr("ref"), PyStr("Collection"), PyStr("Topic"), PyStr("TocCategory"),
            PyStr("Term"), PyStr("User")}
      [] OTHER -> {}

\* The default the catalog declares for a property; None where it declares
\* none.
SchemaDefault(key) ==
    CASE key = "with_text" -> PyStr("0")
      [] key = "size" -> PyInt(10)
      [] key \in {"with_links", "with_refs"} -> PyBool(FALSE)
      [] OTHER -> PyNone

ToolNames == {ToolCatalog[i].name : i \in 1..Len(ToolCatalog)}

ToolSpec(nm) == ToolCatalog[CHOOSE i \in 1..Len(ToolCatalog) : ToolCatalog[i].name = nm]

\* types.TextContent(type="text", text=text): the model validates that text
\* is a str.
TextContent(text, reqs) ==
    IF text.t = "str" THEN Ret(<<[type |-> "text", text |-> text.s]>>, reqs)
    ELSE Raise({"ValidationError"}, "1 validation error for TextContent", reqs)

\* No except clause: the outcome of the try block as it is.
NoExceptClause(out) == out

CatchValueErrorOnly(out) ==
    IF out.k = "exc" /\ "ValueError" \in out.cls
    THEN Ret(<<[type |-> "text", text |-> "Error: " \o out.msg]>>, out.reqs)
    ELSE out

\* `except Exception as err: return [TextContent(text=f"Error: {str(err)}")]`,
\* the clause that closes every branch and the dispatcher as a whole.
CatchException(out) ==
    IF out.k = "exc"
    THEN Ret(<<[type |-> "text", text |-> "Error: " \o out.msg]>>, out.reqs)
    ELSE out

\* The else branch of handle_call_tool: no handler runs.
UnknownToolUnnamed(nm) ==
    Ret(<<[type |-> "text", text |-> "Error: Unknown tool"]>>, <<>>)

UnknownTool(nm) ==
    Ret(<<[type |-> "text", text |-> "Error: Unknown tool " \o nm]>>, <<>>)

MissingParameterUnnamed(label) ==
    Raise({"ValueError"}, "Missing required parameter", <<>>)

\* raise ValueError("Missing <label> parameter")
MissingParameter(label) == Raise({"ValueError"}, "Missing " \o label \o " parameter", <<>>)

\* A call of a handler that sefaria_handler does not define: the name
\* lookup raises NameError.
UndefinedHandler(fn) == Raise({"NameError"}, "name '" \o fn \o "' is not defined", <<>>)

\* return [TextContent(type="text", text=<what the handler returned>)]
TextResult(out) == IF out.k = "exc" THEN out ELSE TextContent(out.v, out.reqs)

\* return [TextContent(type="text", text=json.dumps(results, ensure_ascii=False))]
JsonResult(out) ==
    IF out.k = "exc" THEN out
    ELSE TextContent(PyStr(json_dumps(out.v, NoIndent)), out.reqs)

\* HandlerArguments with the defaults of the handlers' signatures where the
\* branches give their own (size=8 is _search's) and with_text "1".
HandlerArgumentsOtherDefaults(nm, args) ==
    LET arg(key) == DictGet(args, key, PyNone) IN
    CASE nm = "get_text" -> <<arg("reference"), arg("version_language")>>
      [] nm = "get_links" -> <<arg("reference"), DictGet(args, "with_text", PyStr("1"))>>
      [] nm = "search_texts" ->
           <<arg("query"), arg("filters"), DictGet(args, "size", PyInt(8))>>
      [] nm = "search_in_book" ->
           <<arg("query"), arg("book_name"), DictGet(args, "size", PyInt(8))>>
      [] nm = "search_dictionaries" -> <<arg("query")>>
      [] nm = "get_name" -> <<arg("name"), arg("limit"), arg("type_filter")>>
      [] nm = "get_shape" -> <<arg("name")>>
      [] nm = "get_search_path_filter" -> <<arg("book_name")>>
      [] nm = "get_topics" ->
           <<arg("topic_slug"), DictGet(args, "with_links", PyBool(FALSE)),
             DictGet(args, "with_refs", PyBool(FALSE))>>
      [] nm = "get_index" -> <<arg("title")>>
      [] nm = "get_situational_info" -> <<>>
      [] OTHER -> <<arg("reference")>>

\* The arguments each branch reads from the bag for the call of its
\* handler, in the order of the call: arguments.get(key), with a second
\* argument where the branch gives a default.
HandlerArguments(nm, args) ==
    LET arg(key) == DictGet(args, key, PyNone) IN
    CASE nm = "get_text" -> <<arg("reference"), arg("version_language")>>
      [] nm = "get_links" -> <<arg("reference"), DictGet(args, "with_text", PyStr("0"))>>
      [] nm = "search_texts" ->
           <<arg("query"), arg("filters"), DictGet(args, "size", PyInt(10))>>
      [] nm = "search_in_book" ->
           <<arg("query"), arg("book_name"), DictGet(args, "size", PyInt(10))>>
      [] nm = "search_dictionaries" -> <<arg("query")>>
      [] nm = "get_name" -> <<arg("name"), arg("limit"), arg("type_filter")>>
      [] nm = "get_shape" -> <<arg("name")>>
      [] nm = "get_search_path_filter" -> <<arg("book_name")>>
      [] nm = "get_topics" ->
           <<arg("topic_slug"), DictGet(args, "with_links", PyBool(FALSE)),
             DictGet(args, "with_refs", PyBool(FALSE))>>
      [] nm = "get_index" -> <<arg("title")>>
      [] nm = "get_situational_info" -> <<>>
      [] OTHER -> <<arg("reference")>>

\* The try block of the branch of handle_call_tool for the tool nm, for the
\* argument dict args.
ToolBranch(nm, args, cal, up) ==
    LET arg(key) == DictGet(args, key, PyNone)
        missing(key) == ~Truthy(arg(key))
        passed == HandlerArguments(nm, args)
    IN
    CASE nm = "get_text" ->
           IF missing("reference") THEN MissingParameter("reference")
           ELSE TextResult(get_text(passed[1], passed[2], up, <<>>))
      [] nm = "get_english_translations" ->
           IF missing("reference") THEN MissingParameter("reference")
           ELSE TextResult(UndefinedHandler("get_english_translations"))
      [] nm = "get_links" ->
           IF missing("reference") THEN MissingParameter("reference")
           ELSE TextResult(get_links(passed[1], passed[2], up, <<>>))
      [] nm = "search_texts" ->
           IF missing("query") THEN MissingParameter("query")
           ELSE JsonResult(search_texts(passed[1], passed[2], passed[3], up, <<>>))
      [] nm = "search_in_book" ->
           IF missing("query") THEN MissingParameter("query")
           ELSE IF missing("book_name") THEN MissingParameter("book_name")
           ELSE JsonResult(UndefinedHandler("search_in_book"))
      [] nm = "search_dictionaries" ->
           IF missing("query") THEN MissingParameter("query")
           ELSE JsonResult(search_dictionaries(passed[1], up, <<>>))
      [] nm = "get_name" ->
           IF missing("name") THEN MissingParameter("name")
           ELSE TextResult(get_name(passed[1], passed[2], passed[3], up, <<>>))
      [] nm = "get_shape" ->
           IF missing("name") THEN MissingParameter("name")
           ELSE TextResult(get_shape(passed[1], up, <<>>))
      [] nm = "get_search_path_filter" ->
           IF missing("book_name") THEN MissingParameter("book_name")
           ELSE LET filter_path == UndefinedHandler("get_search_path_filter") IN
                IF filter_path.k = "ret" /\ filter_path.v = PyNone
                THEN Ret(<<[type |-> "text",
                            text |-> "Error: Could not convert book name '"
                                     \o PyFormat(arg("book_name"))
                                     \o "' to search filter path"]>>, filter_path.reqs)
                ELSE TextResult(filter_path)
      [] nm = "get_topics" ->
           IF missing("topic_slug") THEN MissingParameter("topic_slug")
           ELSE TextResult(UndefinedHandler("get_topics"))
      [] nm = "get_manuscripts" ->
           IF missing("reference") THEN MissingParameter("reference")
           ELSE TextResult(UndefinedHandler("get_manuscripts"))
      [] nm = "get_index" ->
           IF missing("title") THEN MissingParameter("title")
           ELSE TextResult(UndefinedHandler("get_index"))
      [] nm = "get_situational_info" ->
           TextResult(get_situational_info(cal, up, <<>>))
      [] OTHER -> UnknownTool(nm)

\* handle_call_tool(name, arguments): None becomes {}, the branch of the
\* tool runs inside its own try and inside the try of the dispatcher.
handle_call_tool(nm, args, cal, up) ==
    CatchException(CatchException(
        ToolBranch(nm, IF args = PyNone THEN PyDict(<<>>) ELSE args, cal, up)))

(***************************************************************************)
(* Inputs: tool names, argument bags, upstream outcomes                    *)
(***************************************************************************)
\* Names outside the catalog that callers send.
UnknownNames == {"unknown_tool", "get_texts", ""}

Names == ToolNames \union UnknownNames

\* An argument that the bag does not hold.
Absent == [t |-> "absent"]

\* The values a caller may send for an argument: well typed, wrongly typed,
\* null and empty.
ArgValues(key) ==
    CASE key \in {"reference", "title"} ->
           {PyNone, PyStr(""), PyStr("Genesis 1:1"), PyInt(5), PyList(<<PyStr("Genesis")>>)}
      [] key \in {"query", "name", "book_name", "topic_slug"} ->
           {PyNone, PyStr(""), PyStr("moses"), PyInt(0), PyBool(TRUE)}
      [] key = "version_language" ->
           {PyNone, PyStr("source"), PyStr("english"), PyStr("both"), PyStr("french"), PyInt(1)}
      [] key = "with_text" -> {PyStr("0"), PyStr("1"), PyStr("2"), PyInt(1)}
      [] key = "filters" ->
           {PyNone, PyStr(""), PyStr("Tanakh"), PyList(<<>>), PyList(<<PyStr("Tanakh")>>),
            PyList(<<PyStr("Talmud"), PyStr("Tanakh"), PyStr("Talmud")>>)}
      [] key = "size" -> {PyInt(5), PyInt(10), PyStr("5"), PyNone}
      [] key = "limit" -> {PyInt(0), PyInt(5), PyStr("5")}
      [] key = "type_filter" -> {PyStr("ref"), PyStr("bogus")}
      [] key \in {"with_links", "with_refs"} -> {PyBool(TRUE), PyBool(FALSE), PyStr("yes")}

\* The dict holding, in the order of keys, the arguments that choice does
\* not leave absent.
RECURSIVE BagOf(_, _)
BagOf(keys, choice) ==
    IF Len(keys) = 0 THEN <<>>
    ELSE (IF choice[keys[1]] = Absent THEN <<>> ELSE << <<keys[1], choice[keys[1]]>> >>)
         \o BagOf(Tail(keys), choice)

SeqRange(sq) == {sq[i] : i \in 1..Len(sq)}

\* The argument bags over a sequence of argument names, and None.
Bags(keys) ==
    {PyNone} \union
    {PyDict(BagOf(keys, choice)) :
        choice \in {c \in [SeqRange(keys) ->
                             UNION {ArgValues(key) \union {Absent} : key \in SeqRange(keys)}] :
                       \A key \in SeqRange(keys) : c[key] \in ArgValues(key) \union {Absent}}}

\* The bags sent to a tool: over its declared properties; to an unknown
\* name, over the properties of get_text.
BagsFor(nm) ==
    IF nm \in ToolNames THEN Bags(ToolSpec(nm).properties)
    ELSE Bags(<<"reference", "version_language">>)

\* The ways a request fails: no connection, a bad HTTP status, a body that
\* is no JSON.  requests raises its own JSONDecodeError, a
\* RequestException, from version 2.27 on and the json module's before.
UpstreamFailures ==
    {[k |-> "fail", kind |-> "transport", cls |-> {"RequestException", "ConnectionError"},
      msg |-> "Connection refused"],
     [k |-> "fail", kind |-> "status", cls |-> {"RequestException", "HTTPError"},
      msg |-> "500 Server Error"],
     [k |-> "fail", kind |-> "json",
      cls |-> {"RequestException", "JSONDecodeError", "ValueError"},
      msg |-> "Expecting value: line 1 column 1 (char 0)"],
     [k |-> "fail", kind |-> "json", cls |-> {"JSONDecodeError", "ValueError"},
      msg |-> "Expecting value: line 1 column 1 (char 0)"]}

UpstreamOk(data) == [k |-> "ok", data |-> data]

\* An upstream search hit.
Hit(ref, source, highlight) ==
    PyDict(<< <<"_source", PyDict(<< <<"ref", PyStr(ref)>> >> \o source)>> >>
           \o (IF highlight = Absent THEN <<>> ELSE << <<"highlight", highlight>> >>))

\* An upstream search answer; total is the count in one of its encodings,
\* or Absent.
SearchData(total, hits) ==
    PyDict(<< <<"hits", PyDict((IF total = Absent THEN <<>> ELSE << <<"total", total>> >>)
                               \o << <<"hits", PyList(hits)>> >>)>> >>)

SampleHits ==
    << Hit("Exodus 2:10", << <<"categories", PyList(<<PyStr("Tanakh"), PyStr("Torah")>>)>>,
                             <<"exact", PyStr("and she called his name Moses")>> >>,
           PyDict(<< <<"exact", PyList(<<PyStr("his name <b>Moses</b>")>>)>> >>)),
       Hit("Exodus 3:4", << <<"naive_lemmatizer", PyStr("moses moses")>> >>, Absent),
       Hit("Numbers 12:3", <<>>, Absent) >>

\* An upstream hit of a dictionary entry.
DictionaryHit(ref, variants, path, exact) ==
    PyDict(<< <<"_source",
                PyDict(<< <<"ref", PyStr(ref)>>,
                          <<"titleVariants",
                            PyList([i \in 1..Len(variants) |-> PyStr(variants[i])])>>,
                          <<"path", PyStr(path)>>,
                          <<"exact", PyStr(exact)>>,
                          <<"lang", PyStr("en")>> >>)>> >>)

DictionaryHits ==
    << DictionaryHit("Jastrow, moshe 1", <<"moshe", "mosheh">>,
                     "Reference/Dictionary/Jastrow", "pr. n. m. Moses"),
       DictionaryHit("BDB, mashah 1", <<"mashah">>,
                     "Reference/Dictionary/BDB", "to draw out") >>

\* Well-formed answers of the text, passthrough, calendar and search
\* endpoints, and answers of an unexpected structure.
UpstreamData ==
    {PyDict(<< <<"ref", PyStr("Genesis 1:1")>>,
               <<"versions", PyList(<<
                    PyDict(<< <<"versionTitle", PyStr("Tanach")>>,
                              <<"license", PyStr("CC0")>>,
                              <<"text", PyStr("bereshit")>>,
                              <<"languageFamilyName", PyStr("hebrew")>> >>),
                    PyDict(<< <<"text", PyStr("In the \"beginning\"")>> >>) >>)>>,
               <<"available_versions", PyList(<<
                    PyDict(<< <<"languageFamilyName", PyStr("hebrew")>>,
                              <<"status", PyStr("locked")>> >>) >>)>> >>),
     PyDict(<< <<"depth", PyInt(2)>> >>),
     PyDict(<< <<"calendar_items", PyList(<<PyDict(<< <<"ref", PyStr("Noach")>> >>)>>)>> >>),
     PyDict(<<>>),
     PyList(<<>>),
     PyList(<<PyInt(1)>>),
     PyNone,
     PyInt(5),
     PyDict(<< <<"versions", PyInt(5)>> >>),
     PyDict(<< <<"versions", PyList(<<PyInt(5)>>)>> >>),
     SearchData(PyInt(0), <<>>),
     SearchData(PyDict(<< <<"value", PyInt(3)>> >>), SampleHits),
     SearchData(PyInt(1), SubSeq(SampleHits, 2, 2)),
     SearchData(PyInt(2), DictionaryHits)}

Upstreams == UpstreamFailures \union {UpstreamOk(data) : data \in UpstreamData}

\* What the hdate library gives for the current date.
Calendars == {[k |-> "ok", s |-> "Friday 7 Cheshvan 5787"],
              [k |-> "fail", msg |-> "hdate failed"]}

\* The date library is used by get_situational_info alone.
CalendarsFor(nm) ==
    IF nm = "get_situational_info" THEN Calendars
    ELSE {[k |-> "ok", s |-> "Friday 7 Cheshvan 5787"]}

(***************************************************************************)
(* The dispatcher as a state machine: one action per call (requests.get    *)
(* blocks, so a call runs from its first line to its return without        *)
(* another call in between) and one for the run loop that sends the        *)
(* payload and takes the next request.                                     *)
(***************************************************************************)
Idle == [k |-> "idle"]

\* The calls the server may have in hand at once.
MaxCalls == 2

Slots == 1..MaxCalls

\* A slot with no call in hand; previous is how the last call of the slot
\* ended: "none", "failure" or "payload".
NoCall(previous) == [phase |-> "idle", previous |-> previous]

\* The mutable objects sefaria_handler creates at import, which every call
\* can reach.
ModuleGlobals ==
    [lexicon_map |-> PyDict([i \in 1..Len(lexicon_map) |->
                               <<lexicon_map[i][1], PyStr(lexicon_map[i][2])>>]),
     lexicon_names |-> PyList([i \in 1..Len(lexicon_map) |-> PyStr(lexicon_map[i][2])]),
     lexicon_search_filters |-> lexicon_search_filters]

Init ==
    /\ calls = [s \in Slots |-> NoCall("none")]
    /\ module_globals = ModuleGlobals
    /\ tools = <<>>
    /\ name = ""
    /\ arguments = PyNone
    /\ calendar = Idle
    /\ upstream = Idle
    /\ requests = <<>>
    /\ result = Idle

\* What the caller of an operation sees of its outcome.
Outcome(out) ==
    IF out.k = "ret" THEN [k |-> "ret", v |-> out.v]
    ELSE [k |-> "exc", cls |-> out.cls, msg |-> out.msg]

HandleCallTool ==
    /\ result = Idle
    /\ \E nm \in Names :
         \E args \in BagsFor(nm), up \in Upstreams, cal \in CalendarsFor(nm) :
        /\ name' = nm
        /\ arguments' = args
        /\ calendar' = cal
        /\ upstream' = up
        /\ requests' = handle_call_tool(nm, args, cal, up).reqs
        /\ result' = Outcome(handle_call_tool(nm, args, cal, up))
        /\ UNCHANGED <<calls, module_globals, tools>>

\* server.run: the payload of the call is sent to the caller and the server
\* waits for the next request; nothing of the call is kept.
SendResult ==
    /\ result # Idle
    /\ name' = ""
    /\ arguments' = PyNone
    /\ calendar' = Idle
    /\ upstream' = Idle
    /\ requests' = <<>>
    /\ result' = Idle
    /\ UNCHANGED <<calls, module_globals, tools>>

Next == HandleCallTool \/ SendResult

Spec == Init /\ [][Next]_vars

(***************************************************************************)
(* Properties of the dispatcher                                            *)
(***************************************************************************)
Called == result # Idle

Returned == result.k = "ret"

\* The text of the payload returned by the call.
Payload == result.v[1].text

\* The argument dict the branches read: None stands for {}.
Args == IF arguments = PyNone THEN PyDict(<<>>) ELSE arguments

Lacks(key) == ~DictHas(Args, key)

\* Absent, null or empty: what `if not x` rejects.
Missing(key) == ~Truthy(DictGet(Args, key, PyNone))

ErrorPrefix == "Error: "

\* The message of a failure payload, after the prefix.
Message == SubSeq(Payload, Len(ErrorPrefix) + 1, Len(Payload))

\* C1: whatever the tool name, the argument bag and the upstream outcome,
\* handle_call_tool returns a list of exactly one text payload; no exception
\* escapes it.
C1_Containment ==
    Called =>
        /\ result.k = "ret"
        /\ Len(result.v) = 1
        /\ result.v[1].type = "text"
        /\ result.v[1].text \in STRING

\* A wrongly typed argument and a structurally unexpected upstream answer,
\* each ending in a returned failure payload.
C1_Witness ==
    /\ name = "get_text"
    /\ upstream = UpstreamOk(PyInt(5))
    /\ DictGet(Args, "reference", PyNone) = PyStr("Genesis 1:1")
    /\ Returned
    /\ Payload = "Error: argument of type 'int' is not iterable"

\* C2 as stated: for every required argument that the bag lacks, the
\* failure payload names that argument.
C2_NamesEveryLackingArgument ==
    (Called /\ name \in ToolNames) =>
        \A r \in SeqRange(ToolSpec(name).required) :
            Lacks(r) => /\ Returned
                        /\ StartsWith(Payload, ErrorPrefix)
                        /\ Contains(Message, r)

\* The first required argument, in the order of the schema, that is absent,
\* null or empty.
FirstMissing(required) ==
    required[CHOOSE i \in 1..Len(required) :
                /\ Missing(required[i])
                /\ \A j \in 1..(i - 1) : ~Missing(required[j])]

\* C2, amended: when the bag lacks a required argument the call returns a
\* failure payload naming the first required argument, in check order, that
\* is absent, null or empty; that is the lacking argument itself when the
\* required arguments before it are present and non-empty.
C2_NamesFirstMissingArgument ==
    (Called /\ name \in ToolNames) =>
        \A r \in SeqRange(ToolSpec(name).required) :
            Lacks(r) =>
                /\ Returned
                /\ StartsWith(Payload, ErrorPrefix)
                /\ Message = "Missing " \o FirstMissing(ToolSpec(name).required)
                             \o " parameter"
                /\ (\A q \in SeqRange(ToolSpec(name).required) : q # r => ~Missing(q))
                       => Contains(Message, r)

\* search_in_book with a query and no book_name: the payload names book_name.
C2_Witness ==
    /\ name = "search_in_book"
    /\ ~Missing("query")
    /\ Lacks("book_name")
    /\ Returned
    /\ Payload = "Error: Missing book_name parameter"

\* C3: when the upstream request of a registered tool fails, the payload
\* starts with "Error: ".
C3_UpstreamFailurePrefixed ==
    (Called /\ name \in ToolNames /\ upstream.k = "fail" /\ Len(requests) > 0) =>
        Returned /\ StartsWith(Payload, ErrorPrefix)

\* C4: a name outside the catalog gets a failure payload that contains the
\* name, for any bag, and no upstream request is made.
C4_UnknownTool ==
    (Called /\ name \notin ToolNames) =>
        /\ Returned
        /\ StartsWith(Payload, ErrorPrefix)
        /\ Contains(Message, name)
        /\ requests = <<>>

C4_Witness ==
    /\ name = "unknown_tool"
    /\ arguments # PyNone
    /\ DictHas(arguments, "reference")
    /\ Returned
    /\ Payload = "Error: Unknown tool unknown_tool"
    /\ requests = <<>>

\* A well-formed search answer: a dict whose hits.hits is a list of hits.
WellFormedSearch(up) ==
    /\ up.k = "ok"
    /\ up.data.t = "dict"
    /\ DictHas(up.data, "hits")
    /\ DictGet(up.data, "hits", PyNone).t = "dict"
    /\ DictGet(DictGet(up.data, "hits", PyNone), "hits", PyNone).t = "list"

UpstreamHits(up) == DictGet(DictGet(up.data, "hits", PyNone), "hits", PyNone).l

\* The payload handle_call_tool returns for the current call when the
\* upstream answers with `up` instead.
PayloadUnder(up) == handle_call_tool(name, arguments, calendar, up).v[1].text

\* C5: the payload search_texts returns for a well-formed answer with zero
\* hits is no failure payload and differs from the payload of every failed
\* query.
C5_EmptyDistinctFromFailure ==
    (Called /\ name = "search_texts" /\ ~Missing("query")
        /\ WellFormedSearch(upstream) /\ Len(UpstreamHits(upstream)) = 0) =>
        /\ Returned
        /\ ~StartsWith(Payload, ErrorPrefix)
        /\ \A f \in UpstreamFailures : Payload # PayloadUnder(f)

\* The entry the claim expects for an upstream hit: its reference, its
\* categories (an empty array when it has none) and a snippet.
ExpectedEntries(hits) ==
    {entries \in [1..Len(hits) -> {filtered_result(hits[i], <<>>).v : i \in 1..Len(hits)}] :
        \A i \in 1..Len(hits) :
            /\ DictGet(entries[i], "ref", PyNone)
                 = DictGet(DictGet(hits[i], "_source", PyNone), "ref", PyStr(""))
            /\ DictGet(entries[i], "categories", PyNone).t = "list"}

\* C6: for N >= 1 well-formed upstream hits the result of search_texts holds
\* N entries in upstream order, entry i with the reference of hit i and a
\* categories array.
C6_OneEntryPerHit ==
    (Called /\ name = "search_texts" /\ ~Missing("query")
        /\ WellFormedSearch(upstream) /\ Len(UpstreamHits(upstream)) >= 1) =>
        /\ Returned
        /\ \E entries \in ExpectedEntries(UpstreamHits(upstream)) :
              Payload = json_dumps(PyList(entries), NoIndent)

(***************************************************************************)
(* The result formatting of search_texts on its own: the statements after  *)
(* `data = ...`, applied to an upstream search answer.                     *)
(***************************************************************************)
\* Bounds of the hits: fields of a highlight mapping, fragments of a field,
\* characters of a plain content beyond the snippet limit.
MaxFields == 2
MaxFragments == 2
MaxExcess == 2

HighlightFieldNames == <<"exact", "naive_lemmatizer", "title">>

\* A fragment longer than any plain snippet.
LongFragment == Rep("h", SnippetLimit + 4)

\* The sequences over a set of length 0..n.
SeqsUpTo(S, n) == UNION {[1..m -> S] : m \in 0..n}

FragmentLists ==
    {PyList([i \in 1..Len(fs) |-> PyStr(fs[i])]) : fs \in SeqsUpTo({"", "a"}, MaxFragments)}
    \union {PyList(<<PyStr(LongFragment)>>)}

\* Highlight mappings: Absent, or up to MaxFields distinct fields in any order.
Highlights ==
    {Absent} \union
    {PyDict([i \in 1..Len(ns) |-> <<HighlightFieldNames[ns[i]], fl[i]>>]) :
        ns \in {q \in SeqsUpTo(1..Len(HighlightFieldNames), MaxFields) :
                   \A i, j \in 1..Len(q) : i # j => q[i] # q[j]},
        fl \in [1..MaxFields -> FragmentLists]}

\* The values of a plain content field: absent, empty, short, around the
\* limit, and no string at all.
PlainLengths == {1, 500} \union ((SnippetLimit - 1)..(SnippetLimit + MaxExcess))

ExactContents ==
    {Absent, PyStr(""), PyInt(7)} \union {PyStr(Rep("c", n)) : n \in PlainLengths}

LemmatizerContents ==
    {Absent, PyStr(""), PyStr("n"), PyStr(Rep("n", SnippetLimit + 1)), PyList(<<PyStr("n")>>)}

PlainSource(lem, exact) ==
    (IF exact = Absent THEN <<>> ELSE << <<"exact", exact>> >>)
    \o (IF lem = Absent THEN <<>> ELSE << <<"naive_lemmatizer", lem>> >>)

\* Every highlight mapping with a few plain sources, and every plain source
\* with a few highlight mappings.
SnippetHits ==
    {Hit("Exodus 2:10", src, hl) :
        src \in {<<>>, PlainSource(Absent, PyStr("c")),
                 PlainSource(PyStr("n"), PyStr(Rep("c", SnippetLimit + 1)))},
        hl \in Highlights}
    \union
    {Hit("Exodus 2:10", PlainSource(lem, exact), hl) :
        lem \in LemmatizerContents, exact \in ExactContents,
        hl \in {Absent, PyDict(<<>>),
                PyDict(<< <<"exact", PyList(<<>>)>> >>),
                PyDict(<< <<"exact", PyList(<<PyStr("")>>)>> >>),
                PyDict(<< <<"exact", PyList(<<PyStr("a")>>)>> >>)}}

MaxTotal == 3

\* The encodings of the total count: absent, a bare integer, {"value": N}
\* alone or beside a "relation", and an object without "value".
TotalEncodings ==
    {Absent, PyDict(<< <<"relation", PyStr("eq")>> >>)}
    \union {PyInt(n) : n \in 0..MaxTotal}
    \union {PyDict(<< <<"value", PyInt(n)>> >>) : n \in 0..MaxTotal}
    \union {PyDict(<< <<"value", PyInt(n)>>, <<"relation", PyStr("eq")>> >>) :
               n \in 0..MaxTotal}

ResultsInputs ==
    {UpstreamOk(SearchData(PyInt(1), <<h>>)) : h \in SnippetHits}
    \union {UpstreamOk(data) : data \in UpstreamData}
    \union {UpstreamOk(SearchData(total, hits)) :
               total \in TotalEncodings,
               hits \in {<<>>, SampleHits, SubSeq(SampleHits, 2, 2)}}

InitResults ==
    /\ calls = [s \in Slots |-> NoCall("none")]
    /\ module_globals = ModuleGlobals
    /\ tools = <<>>
    /\ name = "search_texts"
    /\ arguments = PyDict(<< <<"query", PyStr("moses")>> >>)
    /\ calendar = Idle
    /\ upstream \in ResultsInputs
    /\ requests = <<>>
    /\ result = Idle

\* Lines 279-324 of search_texts run on the upstream answer.
FormatResults ==
    /\ result = Idle
    /\ result' = Outcome(filtered_results(upstream.data, DictGet(arguments, "query", PyNone), <<>>))
    /\ UNCHANGED <<name, arguments, calendar, upstream, requests, calls, module_globals,
                 tools>>

NextResults == FormatResults

SpecResults == InitResults /\ [][NextResults]_vars

\* One well-formed hit went in and one entry came out.
OneEntry ==
    /\ Called /\ Returned
    /\ WellFormedSearch(upstream)
    /\ Len(UpstreamHits(upstream)) = 1
    /\ result.v.t = "list"
    /\ Len(result.v.l) = 1

TheHit == UpstreamHits(upstream)[1]

TheSource == DictGet(TheHit, "_source", PyNone)

TheSnippet == DictGet(result.v.l[1], "text_snippet", PyNone).s

\* The fields of the hit's highlight mapping, in upstream order.
HighlightItems ==
    IF DictHas(TheHit, "highlight") THEN DictGet(TheHit, "highlight", PyNone).d ELSE <<>>

HasFragments == \E i \in 1..Len(HighlightItems) : Len(HighlightItems[i][2].l) > 0

\* The fragments of the first field with a non-empty fragment list, joined.
FirstFragmentsJoined ==
    LET i == CHOOSE n \in 1..Len(HighlightItems) :
                 /\ Len(HighlightItems[n][2].l) > 0
                 /\ \A m \in 1..(n - 1) : Len(HighlightItems[m][2].l) = 0
        frags == HighlightItems[i][2].l
    IN  StrJoin([n \in 1..Len(frags) |-> frags[n].s], " [...] ")

\* The plain fields of the priority list that the hit holds as a non-empty
\* string, as indexes into the list.
PlainCandidates ==
    {i \in 1..Len(SnippetFields) :
        /\ DictHas(TheSource, SnippetFields[i])
        /\ DictGet(TheSource, SnippetFields[i], PyNone).t = "str"
        /\ DictGet(TheSource, SnippetFields[i], PyNone).s # ""}

FirstPlainContent ==
    DictGet(TheSource,
            SnippetFields[CHOOSE i \in PlainCandidates : \A j \in PlainCandidates : i <= j],
            PyNone).s

\* No highlight field gives a text: there is no non-empty fragment list, or
\* the first one joins to the empty string.
NoHighlightText == ~HasFragments \/ FirstFragmentsJoined = ""

MaxFilters == 3

FilterInputs ==
    {Absent, PyNone, PyStr(""), PyStr("Tanakh")}
    \union {PyList([i \in 1..Len(fs) |-> PyStr(fs[i])]) :
               fs \in SeqsUpTo({"Tanakh", "Talmud/Bavli"}, MaxFilters)}

SearchInputs ==
    {PyDict(BagOf(<<"query", "filters", "size">>,
                  [key \in {"query", "filters", "size"} |->
                      CASE key = "query" -> q [] key = "filters" -> f [] key = "size" -> n])) :
        q \in {PyStr("moses"), PyStr("")}, f \in FilterInputs, n \in {Absent, PyInt(5)}}

InitSearch ==
    /\ calls = [s \in Slots |-> NoCall("none")]
    /\ module_globals = ModuleGlobals
    /\ tools = <<>>
    /\ name = "_search"
    /\ arguments \in SearchInputs
    /\ calendar = Idle
    /\ upstream \in Upstreams
    /\ requests = <<>>
    /\ result = Idle

\* _search(query, filters, size) runs to its end; filters defaults to None
\* and size to 8.
RunSearch ==
    /\ result = Idle
    /\ requests' = _search(DictGet(arguments, "query", PyNone),
                           DictGet(arguments, "filters", PyNone),
                           DictGet(arguments, "size", PyInt(8)), upstream, <<>>).reqs
    /\ result' = Outcome(_search(DictGet(arguments, "query", PyNone),
                                 DictGet(arguments, "filters", PyNone),
                                 DictGet(arguments, "size", PyInt(8)), upstream, <<>>))
    /\ UNCHANGED <<name, arguments, calendar, upstream, calls, module_globals, tools>>

NextSearch == RunSearch

SpecSearch == InitSearch /\ [][NextSearch]_vars

TheFilters == DictGet(arguments, "filters", PyNone)

\* The filters of the request that went upstream.
SentFilters == requests[1].json.filters

ConcurrentNames == {"get_text", "search_dictionaries", "unknown_tool"}

\* The empty bag, and a bag with the required argument of every tool.
ConcurrentBags ==
    {PyDict(<<>>),
     PyDict(<< <<"reference", PyStr("Genesis 1:1")>>, <<"query", PyStr("moses")>> >>)}

TransportFailure == CHOOSE f \in UpstreamFailures : f.kind = "transport"

ConcurrentUpstreams == {TransportFailure, UpstreamOk(PyDict(<< <<"depth", PyInt(2)>> >>))}

\* The date library answers every call.
Today == [k |-> "ok", s |-> "Friday 7 Cheshvan 5787"]

\* The payload reports a failure of the call.
FailurePayload(res) ==
    \/ StartsWith(res.v[1].text, "Error")
    \/ StartsWith(res.v[1].text, "{\"error\"")

\* How a finished call ended.
Ending(res) == IF res.k = "ret" /\ ~FailurePayload(res) THEN "payload" ELSE "failure"

\* module_globals after a step of a call that adds the name of its tool to
\* lexicon_names.
globals_after_call_recording(nm, globals) ==
    [globals EXCEPT !.lexicon_names = PyList(Append(@.l, PyStr(nm)))]

\* module_globals after a step of a call of the tool nm: no statement of
\* handle_call_tool or of a handler assigns to a module-level name or
\* changes lexicon_map, lexicon_names or lexicon_search_filters.
globals_after_call(nm, globals) == globals

\* The call of a slot after handle_call_tool was entered, `out` being what
\* the call does up to its first answer: it has returned or raised when it
\* sent no request, else it waits for the answer of the request it sent.
Entered(previous, nm, args, out) ==
    IF out.reqs = <<>>
    THEN [phase |-> IF out.k = "ret" THEN "done" ELSE "raised", previous |-> previous,
          name |-> nm, arguments |-> args, upstream |-> Idle, requests |-> <<>>,
          result |-> Outcome(out)]
    ELSE [phase |-> "waiting", previous |-> previous,
          name |-> nm, arguments |-> args, upstream |-> Idle, requests |-> out.reqs,
          result |-> Idle]

\* The call after the answer `up` of its request, `out` being what the call
\* does with that answer; an exception that leaves handle_call_tool ends
\* the call without a payload.
Answered(call, up, out) ==
    [call EXCEPT !.phase = IF out.k = "ret" THEN "done" ELSE "raised",
                 !.upstream = up,
                 !.result = Outcome(out)]

\* handle_call_tool is entered for a request; it runs to its return when it
\* needs no upstream answer, else to its request, which is built before any
\* answer is read.
Accept(s) ==
    /\ calls[s].phase = "idle"
    /\ \E nm \in ConcurrentNames, args \in ConcurrentBags :
          /\ calls' = [calls EXCEPT ![s] =
                Entered(calls[s].previous, nm, args,
                        handle_call_tool(nm, args, Today, TransportFailure))]
          /\ module_globals' = globals_after_call(nm, module_globals)
    /\ UNCHANGED <<name, arguments, calendar, upstream, requests, result, tools>>

\* requests.get returns with the answer of the upstream or raises, and the
\* call runs on to its return without giving up the thread.
Respond(s) ==
    /\ calls[s].phase = "waiting"
    /\ \E up \in ConcurrentUpstreams :
          calls' = [calls EXCEPT ![s] =
             Answered(calls[s], up,
                      handle_call_tool(calls[s].name, calls[s].arguments, Today, up))]
    /\ module_globals' = globals_after_call(calls[s].name, module_globals)
    /\ UNCHANGED <<name, arguments, calendar, upstream, requests, result, tools>>

\* server.run sends the payload; nothing of the call is kept.
Deliver(s) ==
    /\ calls[s].phase = "done"
    /\ calls' = [calls EXCEPT ![s] = NoCall(Ending(calls[s].result))]
    /\ UNCHANGED <<name, arguments, calendar, upstream, requests, result, module_globals,
                 tools>>

NextConcurrent == \E s \in Slots : Accept(s) \/ Respond(s) \/ Deliver(s)

SpecConcurrent == Init /\ [][NextConcurrent]_vars

\* The run loop sends every payload that is ready.  Nothing makes the
\* upstream answer, and the server does not wait for a request of its own
\* accord.
FairSpecConcurrent ==
    /\ SpecConcurrent
    /\ \A s \in Slots : WF_vars(Deliver(s))

(***************************************************************************)
(* The catalog as the client meets it: tools/list answers from             *)
(* handle_list_tools, and the client calls a tool of the listing it holds  *)
(* with a bag over the properties that listing declares.                   *)
(***************************************************************************)
\* A listing that advertises, beside the catalog, a name the dispatcher has
\* no branch for (mutant of handle_list_tools).
handle_list_tools_with_alias ==
    Append(ToolCatalog, [name |-> "get_texts", properties |-> <<"reference">>,
                         required |-> <<"reference">>])

\* handle_list_tools(): the list of Tool objects, built from literals at
\* every listing; it takes no argument and reads no state.
handle_list_tools == ToolCatalog

\* The listings a client asks for.
MaxListings == 2

\* The upstream of a call of a listed tool: down, or answering.
CatalogUpstreams == {TransportFailure, UpstreamOk(PyDict(<< <<"depth", PyInt(2)>> >>))}

\* tools/list: the client receives the list handle_list_tools returns.
ListTools ==
    /\ result = Idle
    /\ Len(tools) < MaxListings
    /\ tools' = Append(tools, handle_list_tools)
    /\ UNCHANGED <<name, arguments, calendar, upstream, requests, result, calls,
                   module_globals>>

\* tools/call of a tool of the latest listing.
CallListedTool ==
    /\ result = Idle
    /\ tools # <<>>
    /\ \E tool \in SeqRange(tools[Len(tools)]) :
         \E args \in Bags(tool.properties), up \in CatalogUpstreams,
            cal \in CalendarsFor(tool.name) :
        /\ name' = tool.name
        /\ arguments' = args
        /\ calendar' = cal
        /\ upstream' = up
        /\ requests' = handle_call_tool(tool.name, args, cal, up).reqs
        /\ result' = Outcome(handle_call_tool(tool.name, args, cal, up))
        /\ UNCHANGED <<calls, module_globals, tools>>

NextCatalog == ListTools \/ CallListedTool \/ SendResult

SpecCatalog == Init /\ [][NextCatalog]_vars

(***************************************************************************)
(* The caller's side of a payload: json.loads, for payloads over the       *)
(* model's alphabet.  A parse gives [v |-> value, i |-> next position];    *)
(* v is JsonError when the text is no JSON.                                *)
(***************************************************************************)
JsonError == [t |-> "error"]

CharAt(s, i) == IF i >= 1 /\ i <= Len(s) THEN SubSeq(s, i, i) ELSE ""

RECURSIVE SkipWhitespace(_, _)
SkipWhitespace(s, i) ==
    IF CharAt(s, i) \in {" ", "\n", "\t"} THEN SkipWhitespace(s, i + 1) ELSE i

Digits == <<"0", "1", "2", "3", "4", "5", "6", "7", "8", "9">>

DigitValue(c) == (CHOOSE n \in 1..10 : Digits[n] = c) - 1

\* The digits from position i on, as a number continuing acc.
RECURSIVE ParseDigits(_, _, _)
ParseDigits(s, i, acc) ==
    IF CharAt(s, i) \in SeqRange(Digits)
    THEN ParseDigits(s, i + 1, 10 * acc + DigitValue(CharAt(s, i)))
    ELSE [v |-> PyInt(acc), i |-> i]

\* The number of backslashes in a row that end just before position i.
RECURSIVE BackslashesBefore(_, _)
BackslashesBefore(s, i) ==
    IF CharAt(s, i - 1) = "\\" THEN 1 + BackslashesBefore(s, i - 1) ELSE 0

\* The positions from i on of the character c that no backslash escapes.
Unescaped(s, i, c) ==
    {k \in i..Len(s) : CharAt(s, k) = c /\ BackslashesBefore(s, k) % 2 = 0}

Least(S) == CHOOSE x \in S : \A y \in S : x <= y

\* The text that the body of a string literal stands for.
RECURSIVE Unescape(_)
Unescape(raw) ==
    LET at == {k \in 1..Len(raw) : CharAt(raw, k) = "\\"} IN
    IF at = {} THEN raw
    ELSE LET k == Least(at)
             e == CharAt(raw, k + 1)
         IN  SubSeq(raw, 1, k - 1) \o (IF e = "n" THEN "\n" ELSE e)
               \o Unescape(SubSeq(raw, k + 2, Len(raw)))

\* The rest of a string literal whose opening quote is before position i.
ParseString(s, i) ==
    LET ends == Unescaped(s, i, "\"") IN
    IF ends = {} THEN [v |-> JsonError, i |-> i]
    ELSE [v |-> PyStr(Unescape(SubSeq(s, i, Least(ends) - 1))), i |-> Least(ends) + 1]

RECURSIVE ParseValue(_, _)
RECURSIVE ParseItems(_, _, _)
RECURSIVE ParseMembers(_, _, _)

\* The JSON value that starts at position i, after whitespace.
ParseValue(s, i) ==
    LET j == SkipWhitespace(s, i)
        c == CharAt(s, j)
    IN  CASE c = "\"" -> ParseString(s, j + 1)
          [] c = "[" -> ParseItems(s, j + 1, <<>>)
          [] c = "{" -> ParseMembers(s, j + 1, <<>>)
          [] c \in SeqRange(Digits) -> ParseDigits(s, j, 0)
          [] c = "-" /\ CharAt(s, j + 1) \in SeqRange(Digits) ->
               LET r == ParseDigits(s, j + 1, 0) IN [v |-> PyInt(0 - r.v.n), i |-> r.i]
          [] c = "n" /\ SubSeq(s \o "    ", j, j + 3) = "null" -> [v |-> PyNone, i |-> j + 4]
          [] c = "t" /\ SubSeq(s \o "    ", j, j + 3) = "true" ->
               [v |-> PyBool(TRUE), i |-> j + 4]
          [] c = "f" /\ SubSeq(s \o "     ", j, j + 4) = "false" ->
               [v |-> PyBool(FALSE), i |-> j + 5]
          [] OTHER -> [v |-> JsonError, i |-> j]

\* The items of an array whose "[" is before position i; acc holds the
\* items read so far.
ParseItems(s, i, acc) ==
    LET j == SkipWhitespace(s, i) IN
    IF CharAt(s, j) = "]" /\ Len(acc) = 0 THEN [v |-> PyList(acc), i |-> j + 1]
    ELSE LET item == ParseValue(s, j)
             k == SkipWhitespace(s, item.i)
         IN  IF item.v = JsonError THEN item
             ELSE IF CharAt(s, k) = "," THEN ParseItems(s, k + 1, Append(acc, item.v))
             ELSE IF CharAt(s, k) = "]"
             THEN [v |-> PyList(Append(acc, item.v)), i |-> k + 1]
             ELSE [v |-> JsonError, i |-> k]

\* The members of an object whose "{" is before position i.
ParseMembers(s, i, acc) ==
    LET j == SkipWhitespace(s, i) IN
    IF CharAt(s, j) = "}" /\ Len(acc) = 0 THEN [v |-> PyDict(acc), i |-> j + 1]
    ELSE IF CharAt(s, j) # "\"" THEN [v |-> JsonError, i |-> j]
    ELSE LET key == ParseString(s, j + 1)
             colon == SkipWhitespace(s, key.i)
         IN  IF key.v = JsonError \/ CharAt(s, colon) # ":" THEN [v |-> JsonError, i |-> colon]
             ELSE LET val == ParseValue(s, colon + 1)
                      k == SkipWhitespace(s, val.i)
                  IN  IF val.v = JsonError THEN val
                      ELSE IF CharAt(s, k) = ","
                      THEN ParseMembers(s, k + 1, Append(acc, <<key.v.s, val.v>>))
                      ELSE IF CharAt(s, k) = "}"
                      THEN [v |-> PyDict(Append(acc, <<key.v.s, val.v>>)), i |-> k + 1]
                      ELSE [v |-> JsonError, i |-> k]

\* json.loads(s): the value, or JsonError when s is no JSON text.
json_loads(s) ==
    LET r == ParseValue(s, 1) IN
    IF r.v = JsonError THEN JsonError
    ELSE IF SkipWhitespace(s, r.i) # Len(s) + 1 THEN JsonError
    ELSE r.v


\* The parsed payload of the call.
Parsed == json_loads(Payload)

DictKeys(d) == {d.d[i][1] : i \in 1..Len(d.d)}

\* The fields get_text keeps of the entries of a list of versions.
VersionFields(key) ==
    IF key = "versions" THEN {"languageFamilyName", "text", "versionTitle"}
    ELSE {"versionTitle", "languageFamilyName"}

\* An upstream text answer: a dict whose lists of versions, where present,
\* are lists of dicts.
TextAnswer ==
    /\ upstream.k = "ok"
    /\ upstream.data.t = "dict"
    /\ \A key \in {"versions", "available_versions"} :
          DictHas(upstream.data, key) =>
             LET vs == DictGet(upstream.data, key, PyNone) IN
             /\ vs.t = "list"
             /\ \A i \in 1..Len(vs.l) : vs.l[i].t = "dict"

\* The entries of the result's list `key` are the upstream entries, one for
\* one and in order, cut down to exactly the kept fields, "" standing for a
\* field the upstream entry lacks.
ProjectedVersions(key) ==
    DictHas(Parsed, key) =>
       LET got == DictGet(Parsed, key, PyNone)
           sent == DictGet(upstream.data, key, PyNone)
       IN  /\ got.t = "list" /\ sent.t = "list"
           /\ Len(got.l) = Len(sent.l)
           /\ \A i \in 1..Len(got.l) :
                 /\ got.l[i].t = "dict"
                 /\ DictKeys(got.l[i]) = VersionFields(key)
                 /\ Len(got.l[i].d) = Cardinality(VersionFields(key))
                 /\ \A f \in VersionFields(key) :
                       DictGet(got.l[i], f, Absent) = DictGet(sent.l[i], f, PyStr(""))

\* C11: in a get_text result every entry of "versions" has exactly the keys
\* languageFamilyName, text and versionTitle and every entry of
\* "available_versions" exactly versionTitle and languageFamilyName; the
\* entries keep the upstream order and count, and a key the upstream entry
\* lacks is present with the value "".
C11_VersionProjection ==
    (Called /\ name = "get_text" /\ upstream.k = "ok"
       /\ DictGet(Args, "reference", PyNone).t = "str" /\ ~Missing("reference")) =>
       /\ Returned
       /\ TextAnswer =>
             /\ Parsed.t = "dict"
             /\ DictHas(Parsed, "versions") = DictHas(upstream.data, "versions")
             /\ DictHas(Parsed, "available_versions")
                  = DictHas(upstream.data, "available_versions")
       /\ Parsed.t = "dict" =>
             ProjectedVersions("versions") /\ ProjectedVersions("available_versions")

\* A get_text result with two versions, the second of which had only a text
\* upstream, and an available version that had no title.
C11_Witness ==
    /\ Called /\ name = "get_text" /\ Returned /\ TextAnswer
    /\ Parsed.t = "dict"
    /\ Len(DictGet(Parsed, "versions", PyList(<<>>)).l) = 2
    /\ DictGet(DictGet(Parsed, "versions", PyNone).l[2], "versionTitle", Absent) = PyStr("")
    /\ DictGet(DictGet(Parsed, "available_versions", PyNone).l[1], "versionTitle", Absent)
         = PyStr("")

\* The tools that hand the upstream answer through, and the argument each
\* one puts into the request path.
PassthroughTools == {"get_shape", "get_links", "get_name"}

PathArgument == IF name = "get_links" THEN "reference" ELSE "name"

\* C12: for get_shape, get_links and get_name, when the upstream answer is
\* the JSON value J, the payload parses back to exactly J: nothing added,
\* removed or reordered.
C12_PassthroughFidelity ==
    (Called /\ name \in PassthroughTools /\ upstream.k = "ok"
       /\ DictGet(Args, PathArgument, PyNone).t = "str" /\ ~Missing(PathArgument)) =>
       /\ Returned
       /\ Parsed = upstream.data

\* get_shape answered {"depth": 2}, and get_links answered the text document
\* with its nested lists.
C12_Witness ==
    /\ Called /\ name \in PassthroughTools /\ upstream.k = "ok" /\ Returned
    /\ \/ name = "get_shape" /\ Parsed = PyDict(<< <<"depth", PyInt(2)>> >>)
       \/ /\ name = "get_links" /\ Parsed.t = "dict"
          /\ DictGet(Parsed, "versions", PyNone).t = "list"
          /\ Len(DictGet(Parsed, "versions", PyNone).l) = 2
          /\ DictGet(DictGet(Parsed, "versions", PyNone).l[1], "license", Absent)
               = PyStr("CC0")

\* The payload reports a failure: an error text, or a JSON object with an
\* "error" member.
FailureReport ==
    \/ StartsWith(Payload, "Error")
    \/ Parsed.t = "dict" /\ DictHas(Parsed, "error")

JsonType(v) ==
    CASE v.t = "str" -> "string"
      [] v.t = "int" -> "integer"
      [] v.t = "bool" -> "boolean"
      [] v.t = "list" -> "array"
      [] v.t = "dict" -> "object"
      [] OTHER -> "null"

\* The value agrees with the catalog's declaration of the property.
SchemaValid(key, v) ==
    /\ JsonType(v) \in SchemaTypes(key)
    /\ SchemaEnum(key) = {} \/ v \in SchemaEnum(key)

\* The arguments of the call whose value the catalog does not admit.
InvalidArguments == {key \in DictKeys(Args) : ~SchemaValid(key, DictGet(Args, key, PyNone))}

\* C15: an argument present in the bag with a value of the wrong type or
\* outside its declared enumeration is rejected with a failure payload, and
\* nothing is sent to the upstream.
C15_InvalidArgumentRejected ==
    (Called /\ name \in ToolNames /\ InvalidArguments # {}) =>
       /\ Returned
       /\ StartsWith(Payload, ErrorPrefix)
       /\ requests = <<>>

\* The call passes the dispatcher's checks of the required arguments, so
\* that its branch reaches the call of the handler.
RequiredGiven ==
    /\ name \in ToolNames
    /\ \A i \in 1..Len(ToolSpec(name).required) : ~Missing(ToolSpec(name).required[i])

\* What the handler is to receive for a property: the caller's value, or
\* the catalog's default when the bag has none.
Resolved(key) == IF Lacks(key) THEN SchemaDefault(key) ELSE DictGet(Args, key, PyNone)

\* The URL of the request the call sent.
SentUrl == requests[1].url

EndsWith(s, suffix) ==
    Len(suffix) <= Len(s) /\ SubSeq(s, Len(s) - Len(suffix) + 1, Len(s)) = suffix

\* C16: for an optional argument absent from the bag the handler receives
\* the catalog's default (size 10, with_text "0", with_links and with_refs
\* false, no version filter for get_text), and a value the caller supplies
\* is passed unchanged; get_links and get_text put it into their request
\* that way.
C16_DefaultsSubstituted ==
    (Called /\ RequiredGiven) =>
       /\ Len(HandlerArguments(name, Args)) = Len(ToolSpec(name).properties)
       /\ \A i \in 1..Len(ToolSpec(name).properties) :
             HandlerArguments(name, Args)[i] = Resolved(ToolSpec(name).properties[i])
       /\ (name = "get_links" /\ Len(requests) = 1) =>
             EndsWith(SentUrl, "?with_text=" \o PyFormat(Resolved("with_text")))
       /\ (name = "get_text" /\ Len(requests) = 1 /\ Lacks("version_language")) =>
             ~Contains(SentUrl, "?")

\* get_links called with a reference alone asked the upstream with
\* with_text=0.
C16_Witness ==
    /\ Called /\ name = "get_links" /\ RequiredGiven /\ Lacks("with_text")
    /\ Len(requests) = 1
    /\ EndsWith(SentUrl, "?with_text=0")

\* The upstream answer of the call with its total count encoded as `total`.
WithTotal(total) == SearchData(total, UpstreamHits(upstream))

\* What lines 279-324 give for the query of the call on the answer `data`.
ResultOn(data) == Outcome(filtered_results(data, DictGet(arguments, "query", PyNone), <<>>))

\* Every hit of the answer is an object with a "_source" object.
HitsWellFormed ==
    \A i \in 1..Len(UpstreamHits(upstream)) :
       /\ UpstreamHits(upstream)[i].t = "dict"
       /\ DictGet(UpstreamHits(upstream)[i], "_source", PyNone).t = "dict"

AsHit(entry) ==
    PyDict(<< <<"_source",
                PyDict(<< <<"ref", DictGet(entry, "ref", PyNone)>>,
                          <<"categories", DictGet(entry, "categories", PyNone)>>,
                          <<"exact", DictGet(entry, "text_snippet", PyNone)>> >>)>> >>)

\* The call returned a normalized list.
Normalized == Called /\ Returned /\ result.v.t = "list"

\* The result of normalizing the returned list again.
Renormalized == ResultOn(SearchData(Absent, [i \in 1..Len(result.v.l) |-> AsHit(result.v.l[i])]))

Snippet(i) == DictGet(result.v.l[i], "text_snippet", PyNone).s

\* A snippet of at most the limit, or of the limit and the ellipsis.
Bounded(snippet) ==
    \/ Len(snippet) <= SnippetLimit
    \/ Len(snippet) = SnippetLimit + 3 /\ EndsWith(snippet, "...")

DictionaryAnswer ==
    /\ WellFormedSearch(upstream)
    /\ \A i \in 1..Len(UpstreamHits(upstream)) :
          LET source == DictGet(UpstreamHits(upstream)[i], "_source", PyNone) IN
          /\ source.t = "dict"
          /\ DictHas(source, "ref") /\ DictHas(source, "exact")
          /\ DictGet(source, "titleVariants", PyNone).t = "list"
          /\ Len(DictGet(source, "titleVariants", PyList(<<>>)).l) > 0
          /\ DictGet(source, "path", PyNone) \in SeqRange(lexicon_search_filters.l)

\* The dictionary name of a path.
LexiconName(path) ==
    lexicon_map[CHOOSE i \in 1..Len(lexicon_map) : lexicon_map[i][1] = path][2]

\* C20: for an upstream search answer with N dictionary hits
\* search_dictionaries returns N entries in upstream order, each with
\* exactly the fields ref, headword, lexicon_name and text, headword being
\* the first title variant and lexicon_name the name mapped from the path;
\* the search request carries the fixed dictionary filter paths.
C20_DictionaryEntries ==
    (Called /\ name = "search_dictionaries" /\ DictGet(Args, "query", PyNone).t = "str"
       /\ ~Missing("query") /\ DictionaryAnswer) =>
       /\ Returned
       /\ Parsed.t = "list"
       /\ Len(Parsed.l) = Len(UpstreamHits(upstream))
       /\ \A i \in 1..Len(Parsed.l) :
             LET source == DictGet(UpstreamHits(upstream)[i], "_source", PyNone) IN
             /\ Parsed.l[i].t = "dict"
             /\ DictKeys(Parsed.l[i]) = {"ref", "headword", "lexicon_name", "text"}
             /\ DictGet(Parsed.l[i], "ref", Absent) = DictGet(source, "ref", PyNone)
             /\ DictGet(Parsed.l[i], "headword", Absent)
                  = DictGet(source, "titleVariants", PyNone).l[1]
             /\ DictGet(Parsed.l[i], "lexicon_name", Absent)
                  = PyStr(LexiconName(DictGet(source, "path", PyNone).s))
             /\ DictGet(Parsed.l[i], "text", Absent) = DictGet(source, "exact", PyNone)
       /\ Len(requests) = 1
       /\ SentFilters = lexicon_search_filters.l

\* The call in slot s has ended, with a payload or with an exception.
Ended(s) == calls[s].phase \in {"done", "raised"}

\* The call of slot s run alone, on the answer that its own request got.
Alone(s) ==
    handle_call_tool(calls[s].name, calls[s].arguments, Today,
                     IF calls[s].upstream = Idle THEN TransportFailure ELSE calls[s].upstream)

C18_ForwardProgress ==
    /\ [](\A s \in Slots :
            /\ calls[s].phase \in {"idle", "waiting", "done"}
            /\ calls[s].phase = "done" =>
                  calls[s].result.k = "ret" /\ Len(calls[s].result.v) = 1)
    /\ \A s \in Slots :
          /\ (calls[s].phase = "done" /\ Ending(calls[s].result) = "failure") ~>
                (calls[s].phase = "idle" /\ calls[s].previous = "failure")
          /\ (calls[s].phase = "done") ~> (calls[s].phase = "idle")

\* After a call of the slot ended in a failure, the next call of the slot
\* returned the upstream answer.
C18_Witness ==
    \E s \in Slots :
       /\ calls[s].previous = "failure"
       /\ calls[s].phase = "done"
       /\ Ending(calls[s].result) = "payload"

\* A required argument the caller left unresolved: absent from the bag, null
\* or the empty string.
Unresolved(key) ==
    \/ Lacks(key)
    \/ DictGet(Args, key, PyNone) = PyNone
    \/ DictGet(Args, key, PyNone) = PyStr("")

\* The payload of the dispatcher's own presence check for a required argument
\* of the tool; no handler and no upstream answer produces it.
RejectedByDispatcher ==
    /\ Returned
    /\ \E r \in SeqRange(ToolSpec(name).required) :
           Payload = ErrorPrefix \o "Missing " \o r \o " parameter"

\* C21: argument resolution precedes the upstream call and is all or nothing:
\* in every call of a registered tool in which some required argument is
\* absent, null or empty, the call returns the failure payload of the
\* dispatcher's presence check and no upstream request has been issued,
\* whatever the other required and optional arguments and the upstream are.
C21_ResolutionPrecedesUpstream ==
    (Called /\ name \in ToolNames) =>
        \A r \in SeqRange(ToolSpec(name).required) :
            Unresolved(r) => RejectedByDispatcher /\ requests = <<>>

\* get_text with an empty reference beside a valid version_language, against
\* an upstream that would answer: rejected, nothing requested.
C21_Witness ==
    /\ Called /\ name = "get_text"
    /\ ~Lacks("reference") /\ DictGet(Args, "reference", PyNone) = PyStr("")
    /\ DictGet(Args, "version_language", PyNone) = PyStr("english")
    /\ upstream.k = "ok"
    /\ Payload = "Error: Missing reference parameter"
    /\ requests = <<>>

\* search_in_book with a valid query and size and no book_name: the second
\* presence check rejects the call before the handler is reached.
C21_WitnessSecondArgument ==
    /\ Called /\ name = "search_in_book"
    /\ DictGet(Args, "query", PyNone) = PyStr("moses")
    /\ DictGet(Args, "size", PyNone) = PyInt(5)
    /\ Lacks("book_name")
    /\ RejectedByDispatcher /\ requests = <<>>

\* The 13 tool names of the catalog.
CatalogNames ==
    {"get_text", "get_english_translations", "get_situational_info", "get_links",
     "search_texts", "search_in_book", "search_dictionaries", "get_name", "get_shape",
     "get_search_path_filter", "get_topics", "get_manuscripts", "get_index"}

\* The names a listing advertises.
ListedNames(listing) == {listing[i].name : i \in 1..Len(listing)}

\* The schema the latest listing gives for the tool being called.
ListedTool ==
    CHOOSE tool \in SeqRange(tools[Len(tools)]) : tool.name = name

\* The bag lacks key and holds every other required argument of the listed
\* schema, non-empty.
LacksOnly(key) ==
    /\ Lacks(key)
    /\ \A r \in SeqRange(ListedTool.required) : r # key => ~Missing(r)

\* The dispatcher rejects the call for the absence of key.
RejectedFor(key) ==
    Returned /\ Payload = ErrorPrefix \o "Missing " \o key \o " parameter"

\* C22: the catalog is a closed set the listing and the dispatcher agree on:
\* every listing advertises exactly the 13 names of the catalog, once each,
\* and so the same set as every other listing; a call of a listed tool is
\* never answered by the unknown-tool branch; and for every property of a
\* listed tool, a call that lacks it alone is rejected for its absence if and
\* only if the listed schema declares it required.
C22_CatalogClosed ==
    /\ \A i \in 1..Len(tools) :
          /\ Len(tools[i]) = 13
          /\ Cardinality(CatalogNames) = 13
          /\ ListedNames(tools[i]) = CatalogNames
          /\ \A j \in 1..Len(tools) : ListedNames(tools[j]) = ListedNames(tools[i])
    /\ Called =>
          /\ name \in ListedNames(tools[Len(tools)])
          /\ Returned
          /\ Payload # ErrorPrefix \o "Unknown tool " \o name
          /\ ~StartsWith(Payload, "Error: Unknown tool")
          /\ \A key \in SeqRange(ListedTool.properties) :
                LacksOnly(key) =>
                    /\ RejectedFor(key) <=> key \in SeqRange(ListedTool.required)
                    /\ key \notin SeqRange(ListedTool.required)
                          => ~StartsWith(Payload, "Error: Missing")

\* After a second listing, search_in_book is called without book_name and
\* with everything else: rejected for book_name, which the listing requires.
C22_Witness ==
    /\ Len(tools) = 2
    /\ Called /\ name = "search_in_book"
    /\ LacksOnly("book_name") /\ ~Lacks("size")
    /\ RejectedFor("book_name")
    /\ "book_name" \in SeqRange(ListedTool.required)

\* get_name is called without limit, which the listing does not require: the
\* call goes through to the upstream.
C22_WitnessOptional ==
    /\ Len(tools) >= 1
    /\ Called /\ name = "get_name"
    /\ LacksOnly("limit")
    /\ "limit" \notin SeqRange(ListedTool.required)
    /\ Len(requests) = 1
    /\ ~StartsWith(Payload, "Error: Missing")

\* The upstream answers the call with a well-formed, non-empty payload: a
\* non-empty JSON object, which for the search tools holds at least one
\* well-formed hit and for the text tools well-formed version lists; the
\* date library answers as well.
AnsweredWell ==
    /\ upstream.k = "ok"
    /\ calendar.k = "ok"
    /\ upstream.data.t = "dict"
    /\ upstream.data.d # <<>>
    /\ name \in {"search_texts", "search_in_book", "search_dictionaries"}
          => WellFormedSearch(upstream) /\ Len(UpstreamHits(upstream)) >= 1
    /\ name \in {"get_text", "get_english_translations"} => TextAnswer

\* The call is one the catalog admits: a registered tool, every required
\* argument present and non-empty, every argument of the bag valid against
\* its schema.
AdmittedCall == RequiredGiven /\ InvalidArguments = {}

\* C23: every tool of the catalog is served: a call of a registered tool
\* with all required arguments present and valid, against an upstream that
\* answers with a well-formed non-empty payload, returns a success payload:
\* not one starting with "Error: " and not a null result.
C23_EveryToolServed ==
    (Called /\ AdmittedCall /\ AnsweredWell) =>
        /\ Returned
        /\ ~StartsWith(Payload, ErrorPrefix)
        /\ Payload # "null"

TypeOK ==
    /\ name \in Names \union {"", "_search"}
    /\ result.k \in {"idle", "ret", "exc"}
    /\ DOMAIN calls = Slots
    /\ \A s \in Slots : calls[s].phase \in {"idle", "waiting", "done", "raised"}

====
